---- MODULE Spec2Model ----
(***************************************************************************)
(* Model of the analytics REST client (AnalyticsEndpoint) and of the       *)
(* AnalyticsSuggestions omnibox component of search-ui.                    *)
(*                                                                         *)
(* Five specifications share the module:                                   *)
(*   Spec        the AnalyticsEndpoint: the order of the sends and of the  *)
(*               promises, the static pendingRequest handle;               *)
(*   SpecLive    the AnalyticsEndpoint when every request in flight        *)
(*               settles;                                                  *)
(*   SpecSession the AnalyticsEndpoint: the visit id and the visitorId     *)
(*               cookie under every response;                              *)
(*   SpecWidget  the AnalyticsSuggestions component;                       *)
(*   SpecClean   cleanCustomData, one invocation of the recursion per step.*)
(***************************************************************************)
EXTENDS Integers, Sequences, FiniteSets, TLC

VARIABLES
  hasBeacon,        \* navigator && navigator.sendBeacon
  pendingRequest,   \* AnalyticsEndpoint.pendingRequest: 0 (null) or the id of the request whose promise it is
  reqs,             \* every POST send made so far, in call order
  visitId,          \* this.visitId of each instance (0: unset)
  cookie,           \* Cookie 'visitorId' (0: no cookie)
  gets,             \* GETs to /analytics/visit issued by getCurrentVisitIdPromise
  lastCall          \* the last public call: the length of its argument list (1 for one event) and what it returned

epVars == <<hasBeacon, pendingRequest, reqs, visitId, cookie, gets, lastCall>>

VARIABLES
  cleanInput,       \* the list cleanCustomData was first called with
  toClean,          \* cleanCustomData's toClean: the parameter of the current invocation, the entries joined once it has returned
  rejectLength,     \* its parameter rejectLength in the current invocation
  cleanRet,         \* the string returned
  cleanPc           \* "call": an invocation is about to run; "done": it has returned

cleanVars == <<cleanInput, toClean, rejectLength, cleanRet, cleanPc>>

VARIABLES
  partialQueries,                 \* this.partialQueries
  lastSuggestions,                \* this.lastSuggestions
  resultsToBuildWith,             \* this.resultsToBuildWith
  currentlyDisplayedSuggestions,  \* this.currentlyDisplayedSuggestions (undefined until a first response)
  populates,                      \* the populateOmnibox events handled so far: the word, the top-queries query (outdated: a querySuccess event was handled while it was pending), the deferred pushed to args.rows
  q,                              \* the q attribute of the query state model
  lastLog                         \* the meta of the last omniboxAnalytics search event logged

widgetVars == <<partialQueries, lastSuggestions, resultsToBuildWith,
                currentlyDisplayedSuggestions, populates, q, lastLog>>

vars == <<epVars, cleanVars, widgetVars>>

(***************************************************************************)
(* Bounds                                                                  *)
(***************************************************************************)
NumInstances == 2
MaxCalls == 3
MaxSessionCalls == 2
MaxLiveCalls == 3
MaxEvents == 1
MaxEntries == 3
MaxPopulates == 2

Instances == 1..NumInstances
\* Two identifiers: the handlers test an identifier for presence and copy it,
\* so two tell a replaced identifier from a kept one.
Ids == {1, 2}

(***************************************************************************)
(* AnalyticsEndpoint                                                       *)
(***************************************************************************)
NoResp == [shape |-> "none", visitId |-> 0, visitorId |-> 0]

\* Decoded bodies of a POST response; 0 stands for an absent identifier.  A
\* "direct" body has visitId and visitorId at the top level, a "batch" body has
\* them in the first element of searchEventResponses (the service answers a
\* batch with one element per event, and sendSearchEvents sends no empty batch).
Responses ==
  {[shape |-> "direct", visitId |-> v, visitorId |-> w] : v \in {0} \cup Ids, w \in {0} \cup Ids}
  \cup {[shape |-> "batch", visitId |-> v, visitorId |-> v] : v \in Ids}
  \cup {[shape |-> "batch", visitId |-> 0, visitorId |-> 1]}

NoPromise == [st |-> "none", of |-> 0]

\* lastCall before any call.  ret is 0 for undefined, k for the promise
\* returned for send k, -g for the promise of the g-th visit call.
NoCall == [len |-> 0 - 1, ret |-> 0]

NewReq(inst, unload, state, waitedOn, visitor, calls, promise) ==
  [inst |-> inst, unload |-> unload, state |-> state,
   waitedOn |-> waitedOn, visitor |-> visitor, calls |-> calls,
   outcome |-> "none", promise |-> promise]

getCurrentVisitId(inst) == visitId[inst]

\* handleAnalyticsEventResponse: the <<visitId, visitorId>> it takes from the
\* response (0: undefined).
ResponseIds(resp) ==
  IF resp.shape = "direct" /\ resp.visitId # 0
    THEN <<resp.visitId, resp.visitorId>>
    ELSE IF resp.shape = "batch"
      THEN <<resp.visitId, resp.visitorId>>
      ELSE <<0, 0>>

handleVisitId(resp, inst) ==
  IF ResponseIds(resp)[1] # 0
    THEN [visitId EXCEPT ![inst] = ResponseIds(resp)[1]]
    ELSE visitId

\* handleCookie as it would be if the cookie were written only when there is none.
handleCookieOnce(resp) ==
  IF ResponseIds(resp)[2] # 0 /\ cookie = 0 THEN ResponseIds(resp)[2] ELSE cookie

handleCookie(resp) ==
  IF ResponseIds(resp)[2] # 0 THEN ResponseIds(resp)[2] ELSE cookie

Last(s) == s[Len(s)]

Min(S) == CHOOSE x \in S : \A y \in S : x <= y

Max(S) == CHOOSE x \in S : \A y \in S : x >= y

\* sendDataBeforeUnload: the beacon when the browser has one, else the hack,
\* which calls sendUsingEndpointCaller without looking at pendingRequest.
sendDataBeforeUnload(inst) ==
  IF hasBeacon
    THEN /\ reqs' = Append(reqs, NewReq(inst, TRUE, "beacon", <<>>, cookie, 1, NoPromise))
         /\ UNCHANGED pendingRequest
    ELSE /\ reqs' = Append(reqs, NewReq(inst, TRUE, "inflight", <<>>, cookie, 1, NoPromise))
         /\ pendingRequest' = Len(reqs) + 1

\* sendUsingEndpointCaller, for a send issued at the time it is called.
sendUsingEndpointCaller(inst) ==
  /\ reqs' = Append(reqs, NewReq(inst, FALSE, "inflight", <<>>, cookie, 1,
                                 [st |-> "pending", of |-> 0]))
  /\ pendingRequest' = Len(reqs) + 1

\* sendToService as it would be if an unload-causing send took its turn behind
\* the pending request like any other send.
sendToServiceQueueingUnload(inst, willCausePageUnload) ==
  /\ IF pendingRequest = 0
       THEN IF willCausePageUnload THEN sendDataBeforeUnload(inst) ELSE sendUsingEndpointCaller(inst)
       ELSE /\ reqs' = Append(reqs, NewReq(inst, willCausePageUnload, "deferred", <<pendingRequest>>,
                                           0, 0, [st |-> "pending", of |-> 0]))
            /\ UNCHANGED pendingRequest
  /\ UNCHANGED <<hasBeacon, visitId, cookie, gets, cleanVars, widgetVars>>

\* sendToService, first entry.  A send that finds a pending request hangs its
\* re-entry on that request's promise (pendingRequest.finally).
sendToService(inst, willCausePageUnload) ==
  /\ IF willCausePageUnload
       THEN sendDataBeforeUnload(inst)
       ELSE IF pendingRequest = 0
         THEN sendUsingEndpointCaller(inst)
         ELSE /\ reqs' = Append(reqs, NewReq(inst, FALSE, "deferred", <<pendingRequest>>,
                                             0, 0, [st |-> "pending", of |-> 0]))
              /\ UNCHANGED pendingRequest
  /\ UNCHANGED <<hasBeacon, visitId, cookie, gets, cleanVars, widgetVars>>

\* sendSearchEvents without the test of the list's length.
SendSearchEventsUnguarded(inst, n) ==
  /\ sendToService(inst, FALSE)
  /\ lastCall' = [len |-> n, ret |-> Len(reqs) + 1]

SendSearchEvents(inst, n) ==
  /\ IF n > 0
       THEN /\ sendToService(inst, FALSE)
            /\ lastCall' = [len |-> n, ret |-> Len(reqs) + 1]
       ELSE /\ lastCall' = [len |-> n, ret |-> 0]
            /\ UNCHANGED <<hasBeacon, pendingRequest, reqs, visitId, cookie, gets, cleanVars, widgetVars>>

SendCustomEvent(inst) ==
  /\ sendToService(inst, FALSE)
  /\ lastCall' = [len |-> 1, ret |-> Len(reqs) + 1]

SendDocumentViewEvent(inst) ==
  /\ sendToService(inst, TRUE)
  /\ lastCall' = [len |-> 1, ret |-> 0]

\* ReturnedPromise as it would be if the outcome of the promise waited on always
\* showed through (finally ignoring the promise its callback returns).
ReturnedPromiseOfWaited(r, own) ==
  LET w == reqs[r].waitedOn
  IN  IF reqs[r].unload THEN NoPromise
      ELSE IF Len(w) = 0 THEN [st |-> own, of |-> r]
      ELSE [st |-> reqs[w[1]].outcome, of |-> w[1]]

\* The promise a non-unload send returned to its caller, once its own call has
\* settled with outcome own.  A deferred send returned
\* P1.finally(() => P2.finally(() => ... own call)): a rejection of the inner
\* promise wins, else the outcome of the promise waited on shows through.
ReturnedPromise(r, own) ==
  LET w == reqs[r].waitedOn
      rej == {k \in 1..Len(w) : reqs[w[k]].outcome = "err"}
  IN  IF reqs[r].unload THEN NoPromise
      ELSE IF own = "err" THEN [st |-> "err", of |-> r]
      ELSE IF rej # {} THEN [st |-> "err", of |-> w[Max(rej)]]
      ELSE IF Len(w) = 0 THEN [st |-> "ok", of |-> r]
      ELSE [st |-> "ok", of |-> w[1]]

\* Waiters as it would be if a send that has to wait a second time, behind the
\* request of another waiter, were not hung on that request's promise.
WaitersOfFirstWait(p) ==
  {k \in 1..Len(reqs) : reqs[k].state = "deferred" /\ reqs[k].waitedOn = <<p>>}

\* The sends whose re-entry hangs on the promise of request p.
Waiters(p) ==
  {k \in 1..Len(reqs) : reqs[k].state = "deferred" /\ Last(reqs[k].waitedOn) = p}

\* Settle as it would be if the first waiter issued the request it had built
\* before the response was handled.
SettleStaleVisitor(p, own, resp) ==
  /\ reqs[p].state = "inflight"
  /\ cookie' = IF own = "ok" THEN handleCookie(resp) ELSE cookie
  /\ visitId' = IF own = "ok" THEN handleVisitId(resp, reqs[p].inst) ELSE visitId
  /\ LET W == Waiters(p)
         settled == [reqs EXCEPT ![p].state = "settled",
                                 ![p].inst = 0,
                                 ![p].visitor = 0,
                                 ![p].outcome = own,
                                 ![p].promise = ReturnedPromise(p, own)]
     IN  IF W = {}
           THEN /\ pendingRequest' = 0
                /\ reqs' = settled
           ELSE /\ pendingRequest' = Min(W)
                /\ reqs' = [k \in 1..Len(reqs) |->
                              IF k = Min(W)
                                THEN [settled[k] EXCEPT !.state = "inflight",
                                                        !.visitor = cookie,
                                                        !.calls = @ + 1]
                              ELSE IF k \in W
                                THEN [settled[k] EXCEPT !.waitedOn = Append(@, Min(W))]
                              ELSE settled[k]]
  /\ UNCHANGED <<hasBeacon, gets, lastCall, cleanVars, widgetVars>>

\* A settled request keeps the outcome of its call and of the promise returned
\* to the caller; the request itself (its instance, its query string) is gone.
\* The request p settles with outcome own ("ok" with the response resp, or
\* "err"): .then handles the response, .finally clears pendingRequest, then the
\* sends that waited on the promise re-enter sendToService in the order they
\* were hung on it: the first finds no pending request and issues its call,
\* the others wait on that one.
Settle(p, own, resp) ==
  /\ reqs[p].state = "inflight"
  /\ cookie' = IF own = "ok" THEN handleCookie(resp) ELSE cookie
  /\ visitId' = IF own = "ok" THEN handleVisitId(resp, reqs[p].inst) ELSE visitId
  /\ LET W == Waiters(p)
         settled == [reqs EXCEPT ![p].state = "settled",
                                 ![p].inst = 0,
                                 ![p].visitor = 0,
                                 ![p].outcome = own,
                                 ![p].promise = ReturnedPromise(p, own)]
     IN  IF W = {}
           THEN /\ pendingRequest' = 0
                /\ reqs' = settled
           ELSE /\ pendingRequest' = Min(W)
                /\ reqs' = [k \in 1..Len(reqs) |->
                              IF k = Min(W)
                                THEN [settled[k] EXCEPT !.state = "inflight",
                                                        !.visitor = cookie',
                                                        !.calls = @ + 1]
                              ELSE IF k \in W
                                THEN [settled[k] EXCEPT !.waitedOn = Append(@, Min(W))]
                              ELSE settled[k]]
  /\ UNCHANGED <<hasBeacon, gets, lastCall, cleanVars, widgetVars>>

SettleSuccess(p, resp) == Settle(p, "ok", resp)

SettleFailure(p) == Settle(p, "err", NoResp)

\* getCurrentVisitIdPromise as it would be if it never looked at the cached id.
GetCurrentVisitIdPromiseUncached(inst) ==
  /\ gets' = Append(gets, [inst |-> inst, state |-> "inflight", network |-> TRUE,
                           result |-> [st |-> "none", id |-> 0]])
  /\ lastCall' = [len |-> 0, ret |-> 0 - (Len(gets) + 1)]
  /\ UNCHANGED <<hasBeacon, pendingRequest, reqs, visitId, cookie, cleanVars, widgetVars>>

\* getCurrentVisitIdPromise: the cached id, or a GET to /analytics/visit.
GetCurrentVisitIdPromise(inst) ==
  /\ gets' = Append(gets,
       IF getCurrentVisitId(inst) # 0
         THEN [inst |-> inst, state |-> "settled", network |-> FALSE,
               result |-> [st |-> "ok", id |-> getCurrentVisitId(inst)]]
         ELSE [inst |-> inst, state |-> "inflight", network |-> TRUE,
               result |-> [st |-> "none", id |-> 0]])
  /\ lastCall' = [len |-> 0, ret |-> 0 - (Len(gets) + 1)]
  /\ UNCHANGED <<hasBeacon, pendingRequest, reqs, visitId, cookie, cleanVars, widgetVars>>

VisitSuccess(g, id) ==
  /\ gets[g].state = "inflight"
  /\ visitId' = [visitId EXCEPT ![gets[g].inst] = id]
  /\ gets' = [gets EXCEPT ![g].state = "settled", ![g].result = [st |-> "ok", id |-> id]]
  /\ UNCHANGED <<hasBeacon, pendingRequest, reqs, cookie, lastCall, cleanVars, widgetVars>>

VisitFailure(g) ==
  /\ gets[g].state = "inflight"
  /\ gets' = [gets EXCEPT ![g].state = "settled", ![g].result = [st |-> "err", id |-> 0]]
  /\ UNCHANGED <<hasBeacon, pendingRequest, reqs, visitId, cookie, lastCall, cleanVars, widgetVars>>

(***************************************************************************)
(* AnalyticsSuggestions.cleanCustomData                                    *)
(*                                                                         *)
(* A string is a sequence of one-character strings, so that its length,    *)
(* the removal of ';' and the join are computed.                           *)
(***************************************************************************)
DefaultRejectLength == 256
TransportLimit == 256
RejectStep == 10

Rep(c, n) == [i \in 1..n |-> c]

\* _.filter(toClean, (partial, pos, array) => pos === 0 || partial !== array[pos - 1])
RECURSIVE FilterConsecutive(_, _)
FilterConsecutive(s, i) ==
  IF i > Len(s) THEN <<>>
  ELSE (IF i = 1 \/ s[i] # s[i - 1] THEN <<s[i]>> ELSE <<>>) \o FilterConsecutive(s, i + 1)

\* partial.replace(/;/g, '')
IsNotSemicolon(c) == c # ";"

StripSemicolons(str) == SelectSeq(str, IsNotSemicolon)

MapStrip(s) == [i \in 1..Len(s) |-> StripSemicolons(s[i])]

\* _.reduceRight from position i down to 1 with the running total memo: the
\* entries pushed, in the order they are pushed (last entry first).
RECURSIVE ReduceRight(_, _, _, _)
ReduceRight(s, i, memo, limit) ==
  IF i = 0 THEN <<>>
  ELSE LET totalSoFar == memo + Len(s[i])
       IN  (IF totalSoFar <= limit THEN <<s[i]>> ELSE <<>>)
             \o ReduceRight(s, i - 1, totalSoFar, limit)

Reverse(s) == [i \in 1..Len(s) |-> s[Len(s) + 1 - i]]

\* Array.prototype.join(';')
RECURSIVE Join(_)
Join(s) ==
  IF Len(s) = 0 THEN <<>>
  ELSE IF Len(s) = 1 THEN s[1]
  ELSE s[1] \o <<";">> \o Join(Tail(s))

\* The body of one invocation up to the join: the entries kept.
CleanPass(list, limit) ==
  LET filtered == FilterConsecutive(list, 1)
      stripped == MapStrip(filtered)
  IN  Reverse(ReduceRight(stripped, Len(stripped), 0, limit))

\* The test as it would be with > for >=.
OverLimitOffByOne(ret) == Len(ret) > TransportLimit

\* ret.length >= 256
OverLimit(ret) == Len(ret) >= TransportLimit

\* cleanCustomData(toClean, rejectLength)
RECURSIVE cleanCustomData(_, _)
cleanCustomData(list, limit) ==
  LET kept == CleanPass(list, limit)
  IN  IF OverLimit(Join(kept))
        THEN cleanCustomData(kept, limit - RejectStep)
        ELSE Join(kept)

\* Entries the lists are drawn from.
CleanEntries ==
  {<<>>, <<";">>, <<"a">>, <<"a", ";">>, Rep("a", 127), Rep("b", 128), Rep("a", 255), Rep("b", 300)}

RECURSIVE SeqsUpTo(_, _)
SeqsUpTo(S, n) ==
  IF n = 0 THEN {<<>>}
  ELSE LET shorter == SeqsUpTo(S, n - 1)
       IN  shorter \cup {Append(t, x) : t \in {u \in shorter : Len(u) = n - 1}, x \in S}

\* Longer lists of short entries, which take several retries: n entries taken
\* in turn from the pair.
Alternating(pair, n) == [i \in 1..n |-> pair[1 + (i % 2)]]

LongInputs ==
  {Alternating(<<Rep("a", 7), Rep("b", 7)>>, n) : n \in {32, 33, 40}}
  \cup {Alternating(<<Rep("a", 12), <<";">>>>, n) : n \in {38, 40}}

CleanInputs == SeqsUpTo(CleanEntries, MaxEntries) \cup LongInputs

\* One invocation of cleanCustomData that calls itself again.
CleanRecurse ==
  /\ cleanPc = "call"
  /\ \E kept \in {CleanPass(toClean, rejectLength)} :
       \E ret \in {Join(kept)} :
         /\ OverLimit(ret)
         /\ toClean' = kept
         /\ rejectLength' = rejectLength - RejectStep
  /\ UNCHANGED <<cleanInput, cleanRet, cleanPc, epVars, widgetVars>>

\* One invocation of cleanCustomData that returns.
CleanReturn ==
  /\ cleanPc = "call"
  /\ \E kept \in {CleanPass(toClean, rejectLength)} :
       \E ret \in {Join(kept)} :
         /\ ~OverLimit(ret)
         /\ toClean' = kept
         /\ cleanRet' = ret
         /\ cleanPc' = "done"
  /\ UNCHANGED <<cleanInput, rejectLength, epVars, widgetVars>>

(***************************************************************************)
(* AnalyticsSuggestions.  A string is the sequence of its characters.      *)
(***************************************************************************)
Digits == {"0", "1", "2", "3", "4", "5", "6", "7", "8", "9"}

\* The argument of selectSuggestion: a number or a string.
Num(n) == [kind |-> "number", n |-> n, s |-> <<>>]

Str(s) == [kind |-> "string", n |-> 0, s |-> s]

\* isNaN(x): Number(x) is NaN.  Of the strings of letters, digits and ';',
\* those of digits only convert to a number (the empty string converts to 0).
IsNaN(x) == x.kind = "string" /\ \E i \in 1..Len(x.s) : x.s[i] \notin Digits

\* The numberOfSuggestions option (at least 1, 5 if not set), sent as the
\* pageSize of the top-queries query.
numberOfSuggestions == 2

\* Query texts the top-queries service returns, and words typed in the box.
Labels == {<<"a">>, <<"1">>}

Words == {<<>>, <<"a">>}

NoElement == [defined |-> FALSE, of |-> 0, rows |-> <<>>]

NoRow == <<0, 0>>

NoLog == [partialQueries |-> <<>>, suggestionRanking |-> 0 - 2,
          suggestions |-> <<>>, partialQuery |-> <<>>]

\* The element built for populate event p: one selectable row per result, in
\* order, whose text is the result's value.
buildOmniboxElement(results, p) ==
  [defined |-> TRUE, of |-> p, rows |-> [i \in 1..Len(results) |-> results[i].value]]

\* findAll('.coveo-omnibox-selectable'): the rows in document order; row i of
\* the element of populate event p is <<p, i>>, i from 0.
Selectables(element) ==
  [i \in 1..Len(element.rows) |-> [row |-> <<element.of, i - 1>>, text |-> element.rows[i]]]

\* The index built over the rows: a later row of the same text overwrites the
\* entry of an earlier one.
DisplayedSuggestions(element) ==
  LET sel == Selectables(element)
      last(l) == Max({i \in 1..Len(sel) : sel[i].text = l})
  IN  [defined |-> TRUE,
       map |-> [l \in {sel[i].text : i \in 1..Len(sel)} |->
                  [element |-> sel[last(l)].row, pos |-> last(l) - 1]]]

Undisplayed == [defined |-> FALSE, map |-> [l \in {} |-> 0]]

\* _.findWhere(map, {pos: x}): the entries whose pos is strictly equal to x.
findWhere(map, x) == {l \in DOMAIN map : x.kind = "number" /\ map[l].pos = x.n}

\* The row selectSuggestion(x) triggers a click on, NoRow if none.
ClickTarget(x) ==
  IF ~currentlyDisplayedSuggestions.defined THEN NoRow
  ELSE IF IsNaN(x)
    THEN IF x.s \in DOMAIN currentlyDisplayedSuggestions.map
           THEN currentlyDisplayedSuggestions.map[x.s].element
           ELSE NoRow
    ELSE LET found == findWhere(currentlyDisplayedSuggestions.map, x)
         IN  IF found = {} THEN NoRow
             ELSE currentlyDisplayedSuggestions.map[CHOOSE l \in found : TRUE].element

pluck(list) == [i \in 1..Len(list) |-> list[i].value]

RECURSIVE IndexFrom(_, _, _)
IndexFrom(list, value, i) ==
  IF i > Len(list) THEN 0 - 1
  ELSE IF list[i] = value THEN i - 1
  ELSE IndexFrom(list, value, i + 1)

\* _.indexOf as it would be if it searched from the end of the list.
lastIndexOf(list, value) ==
  IF \A i \in 1..Len(list) : list[i] # value THEN 0 - 1
  ELSE Max({i \in 1..Len(list) : list[i] = value}) - 1

\* _.indexOf(list, value)
indexOf(list, value) == IndexFrom(list, value, 1)

handlePopulateOmnibox(word) ==
  /\ Len(populates) < MaxPopulates
  /\ populates' = Append(populates, [word |-> word, query |-> "pending", outdated |-> FALSE,
                                     deferred |-> "pending", element |-> NoElement])
  /\ UNCHANGED <<partialQueries, lastSuggestions, resultsToBuildWith,
                 currentlyDisplayedSuggestions, q, lastLog, epVars, cleanVars>>

\* TopQueriesSuccess as it would be if it recorded the word whatever the results.
TopQueriesSuccessRecordingAlways(p, results) ==
  /\ populates[p].query = "pending"
  /\ resultsToBuildWith' = [i \in 1..Len(results) |-> [value |-> results[i]]]
  /\ lastSuggestions' = results
  /\ partialQueries' = IF populates[p].word # <<>>
                         THEN Append(partialQueries, populates[p].word)
                         ELSE partialQueries
  /\ \E element \in {buildOmniboxElement(resultsToBuildWith', p)} :
       /\ currentlyDisplayedSuggestions' = DisplayedSuggestions(element)
       /\ populates' = [populates EXCEPT ![p].query = "ok",
                                         ![p].outdated = FALSE,
                                         ![p].deferred = "resolved",
                                         ![p].element = element]
  /\ UNCHANGED <<q, lastLog, epVars, cleanVars>>

\* searchPromise.then: the top-queries query of populate event p succeeds.
TopQueriesSuccess(p, results) ==
  /\ populates[p].query = "pending"
  /\ resultsToBuildWith' = [i \in 1..Len(results) |-> [value |-> results[i]]]
  /\ lastSuggestions' = results
  /\ partialQueries' = IF resultsToBuildWith' # <<>> /\ populates[p].word # <<>>
                         THEN Append(partialQueries, populates[p].word)
                         ELSE partialQueries
  /\ \E element \in {buildOmniboxElement(resultsToBuildWith', p)} :
       /\ currentlyDisplayedSuggestions' = DisplayedSuggestions(element)
       /\ populates' = [populates EXCEPT ![p].query = "ok",
                                         ![p].outdated = FALSE,
                                         ![p].deferred = "resolved",
                                         ![p].element = element]
  /\ UNCHANGED <<q, lastLog, epVars, cleanVars>>

\* searchPromise.catch as it would be if it passed the rejection on.
TopQueriesFailureRejecting(p) ==
  /\ populates[p].query = "pending"
  /\ populates' = [populates EXCEPT ![p].query = "err", ![p].outdated = FALSE,
                                    ![p].deferred = "rejected"]
  /\ UNCHANGED <<partialQueries, lastSuggestions, resultsToBuildWith,
                 currentlyDisplayedSuggestions, q, lastLog, epVars, cleanVars>>

\* searchPromise.catch: the top-queries query of populate event p is rejected.
TopQueriesFailure(p) ==
  /\ populates[p].query = "pending"
  /\ populates' = [populates EXCEPT ![p].query = "err", ![p].outdated = FALSE,
                                    ![p].deferred = "resolved"]
  /\ UNCHANGED <<partialQueries, lastSuggestions, resultsToBuildWith,
                 currentlyDisplayedSuggestions, q, lastLog, epVars, cleanVars>>

\* The querySuccess handler.
QuerySuccess ==
  /\ partialQueries' = <<>>
  /\ populates' = [p \in 1..Len(populates) |->
                     [populates[p] EXCEPT !.outdated = (populates[p].query = "pending")]]
  /\ UNCHANGED <<lastSuggestions, resultsToBuildWith, currentlyDisplayedSuggestions,
                 q, lastLog, epVars, cleanVars>>

\* onRowSelection(value, args), args those of populate event p.
onRowSelection(value, p) ==
  /\ q' = value
  /\ lastLog' = [partialQueries |-> cleanCustomData(partialQueries, DefaultRejectLength),
                 suggestionRanking |-> indexOf(pluck(resultsToBuildWith), value),
                 suggestions |-> cleanCustomData(lastSuggestions, DefaultRejectLength),
                 partialQuery |-> populates[p].word]
  /\ UNCHANGED <<partialQueries, lastSuggestions, resultsToBuildWith,
                 currentlyDisplayedSuggestions, populates, epVars, cleanVars>>

\* A click on a row: the row's onSelect with the row's value and the args of
\* the populate event the row was built for.
Click(row) == onRowSelection(populates[row[1]].element.rows[row[2] + 1], row[1])

\* The user clicks row i of the element built for populate event p.
UserClick(p, i) ==
  /\ populates[p].element.defined
  /\ i < Len(populates[p].element.rows)
  /\ Click(<<p, i>>)

selectSuggestion(x) ==
  \E row \in {ClickTarget(x)} :
    IF row = NoRow THEN UNCHANGED vars ELSE Click(row)

\* The component as constructed.
WidgetIdle ==
  /\ partialQueries = <<>>
  /\ lastSuggestions = <<>>
  /\ resultsToBuildWith = <<>>
  /\ currentlyDisplayedSuggestions = Undisplayed
  /\ populates = <<>>
  /\ q = <<>>
  /\ lastLog = NoLog

\* No call of cleanCustomData is under way.
CleanIdle ==
  /\ cleanInput = <<>>
  /\ toClean = <<>>
  /\ rejectLength = DefaultRejectLength
  /\ cleanRet = <<>>
  /\ cleanPc = "done"

Init ==
  /\ CleanIdle
  /\ WidgetIdle
  /\ hasBeacon \in BOOLEAN
  /\ pendingRequest = 0
  /\ reqs = <<>>
  /\ visitId = [i \in Instances |-> 0]
  /\ cookie \in 0..1
  /\ gets = <<>>
  /\ lastCall = NoCall

\* The calls made so far that went, or may go, to the network.
CallsMade == Len(reqs) + Len(gets)

\* The endpoint under at most maxCalls calls, the service answering with the
\* responses of the set responses and the visit ids of the set ids.
EndpointNext(maxCalls, responses, ids) ==
  \/ \E inst \in Instances : SendSearchEvents(inst, 0)
  \/ \E inst \in Instances, n \in 1..MaxEvents : CallsMade < maxCalls /\ SendSearchEvents(inst, n)
  \/ \E inst \in Instances : CallsMade < maxCalls /\ SendCustomEvent(inst)
  \/ \E inst \in Instances : CallsMade < maxCalls /\ SendDocumentViewEvent(inst)
  \/ \E p \in 1..Len(reqs), resp \in responses : SettleSuccess(p, resp)
  \/ \E p \in 1..Len(reqs) : SettleFailure(p)
  \/ \E inst \in Instances : CallsMade < maxCalls /\ GetCurrentVisitIdPromise(inst)
  \/ \E g \in 1..Len(gets), id \in ids : VisitSuccess(g, id)
  \/ \E g \in 1..Len(gets) : VisitFailure(g)

\* Responses with no identifiers or with the identifiers 1, 1: enough for the
\* order of the requests and the promises, which do not read the identifiers.
PlainResponses == {r \in Responses : r.visitId = r.visitorId /\ r.visitId <= 1}

Next == EndpointNext(MaxCalls, PlainResponses, {1})

\* The order of the requests and the promises: up to MaxCalls calls.
Spec == Init /\ [][Next]_vars

\* A body without identifiers: the progress of the sends does not depend on
\* what the responses carry.
BareResponses == {r \in PlainResponses : r.visitId = 0}

InitLive == Init /\ cookie = 0

NextLive == EndpointNext(MaxLiveCalls, BareResponses, {1})

\* Some request in flight settles, with a response or with an error.
SomeSettle ==
  \E p \in 1..Len(reqs) :
    \/ \E resp \in BareResponses : SettleSuccess(p, resp)
    \/ SettleFailure(p)

\* The endpoint when the network answers: a request in flight does not stay
\* in flight for ever.  The sends are finitely many, so each request in flight
\* settles.
SpecLive == InitLive /\ [][NextLive]_vars /\ WF_vars(SomeSettle)

NextSession == EndpointNext(MaxSessionCalls, Responses, Ids)

\* The visit id and the visitor cookie: every response, up to MaxSessionCalls calls.
SpecSession == Init /\ [][NextSession]_vars

(***************************************************************************)
(* cleanCustomData on its own: the endpoint is left as constructed.        *)
(***************************************************************************)
\* The endpoint as constructed, in a browser with sendBeacon and no cookie.
EndpointIdle ==
  /\ hasBeacon = TRUE
  /\ pendingRequest = 0
  /\ reqs = <<>>
  /\ visitId = [i \in Instances |-> 0]
  /\ cookie = 0
  /\ gets = <<>>
  /\ lastCall = NoCall

InitClean ==
  /\ EndpointIdle
  /\ WidgetIdle
  /\ cleanInput \in CleanInputs
  /\ toClean = cleanInput
  /\ rejectLength = DefaultRejectLength
  /\ cleanRet = <<>>
  /\ cleanPc = "call"

NextClean == CleanRecurse \/ CleanReturn

SpecClean == InitClean /\ [][NextClean]_vars

(***************************************************************************)
(* The AnalyticsSuggestions component on its own.                          *)
(***************************************************************************)
InitWidget == EndpointIdle /\ CleanIdle /\ WidgetIdle

NextWidget ==
  \/ \E word \in Words : handlePopulateOmnibox(word)
  \/ \E p \in 1..Len(populates), results \in SeqsUpTo(Labels, numberOfSuggestions) :
       TopQueriesSuccess(p, results)
  \/ \E p \in 1..Len(populates) : TopQueriesFailure(p)
  \/ QuerySuccess
  \/ \E i \in 0..(numberOfSuggestions - 1) : selectSuggestion(Num(i))
  \/ \E label \in Labels : selectSuggestion(Str(label))
  \/ \E p \in 1..Len(populates), i \in 0..(numberOfSuggestions - 1) : UserClick(p, i)

SpecWidget == InitWidget /\ [][NextWidget]_vars

(***************************************************************************)
(* Properties of the AnalyticsSuggestions component                        *)
(***************************************************************************)
\* C7: every populate event pushes one deferred, pending at first and never
\* rejected; the step in which the top-queries query of a populate event is
\* rejected resolves that deferred with an undefined element and leaves
\* partialQueries, lastSuggestions, resultsToBuildWith and
\* currentlyDisplayedSuggestions as they were.
C7_RejectedQueryResolvesUndefined ==
  [][/\ Len(populates') # Len(populates) =>
          /\ Len(populates') = Len(populates) + 1
          /\ Last(populates').deferred = "pending"
     /\ \A p \in 1..Len(populates) :
          /\ populates'[p].deferred # "rejected"
          /\ (populates[p].query = "pending" /\ populates'[p].query = "err") =>
               /\ populates'[p].deferred = "resolved"
               /\ ~populates'[p].element.defined
               /\ UNCHANGED <<partialQueries, lastSuggestions, resultsToBuildWith,
                              currentlyDisplayedSuggestions>>
    ]_vars

\* The query of a populate event was rejected after an earlier one had
\* rendered suggestions and recorded its partial text.
C7_Witness ==
  /\ currentlyDisplayedSuggestions.defined
  /\ resultsToBuildWith # <<>>
  /\ partialQueries # <<>>
  /\ \E p \in 1..Len(populates) :
       /\ populates[p].query = "err"
       /\ populates[p].deferred = "resolved"
       /\ \E o \in 1..Len(populates) : o < p /\ populates[o].query = "ok"

\* C8: for every position i of the rendered list, selectSuggestion(i) and
\* selectSuggestion(the label rendered at position i) click the same row, the
\* one at position i.
C8_PositionAndLabelClickSameRow ==
  currentlyDisplayedSuggestions.defined =>
    \A i \in 1..Len(resultsToBuildWith) :
      /\ ClickTarget(Num(i - 1)) # NoRow
      /\ ClickTarget(Num(i - 1)) = ClickTarget(Str(resultsToBuildWith[i].value))

\* C9: the suggestionRanking of a logged selection is the zero-based index of
\* the selected value (the first, if it occurs more than once) in
\* lastSuggestions, -1 if it is not there, and the suggestions logged with it
\* are those of lastSuggestions.
C9_RankingIsIndexInLastSuggestions ==
  [][lastLog' # lastLog =>
       LET hits == {i \in 1..Len(lastSuggestions) : lastSuggestions[i] = q'}
       IN  /\ lastLog'.suggestionRanking = IF hits = {} THEN 0 - 1 ELSE Min(hits) - 1
           /\ lastLog'.suggestions = cleanCustomData(lastSuggestions, DefaultRejectLength)
           /\ lastSuggestions' = lastSuggestions
    ]_vars

\* A row of an element built for an earlier response was selected: its value
\* is not in the last fetched list, which is not empty.
C9_Witness ==
  /\ lastLog.suggestionRanking = 0 - 1
  /\ lastSuggestions # <<>>
  /\ lastLog.suggestions # <<>>

\* C18: the step in which the top-queries query of a populate event succeeds
\* appends the word of the event to partialQueries when the results are not
\* empty and the word is not empty, and leaves partialQueries as it was
\* otherwise; a querySuccess event empties it; no other step changes it.
C18_PartialQueriesHistory ==
  [][/\ \A p \in 1..Len(populates) :
          (populates[p].query = "pending" /\ populates'[p].query = "ok") =>
            partialQueries' =
              IF populates'[p].element.rows # <<>> /\ populates[p].word # <<>>
                THEN Append(partialQueries, populates[p].word)
                ELSE partialQueries
     /\ QuerySuccess => partialQueries' = <<>>
     /\ (\A p \in 1..Len(populates) : populates'[p].query = "ok" => populates[p].query = "ok") =>
          partialQueries' \in {partialQueries, <<>>}
     /\ (\/ lastLog' # lastLog
         \/ q' # q
         \/ Len(populates') # Len(populates)
         \/ \E p \in 1..Len(populates) : populates[p].query = "pending" /\ populates'[p].query = "err") =>
          partialQueries' = partialQueries
    ]_vars

\* One word was recorded; the query of another populate event with a word
\* succeeded with no results, and a selection was logged.
C18_Witness ==
  /\ Len(partialQueries) = 1
  /\ lastLog # NoLog
  /\ \E p \in 1..Len(populates) :
       populates[p].query = "ok" /\ populates[p].word # <<>> /\ populates[p].element.rows = <<>>
  /\ \E p \in 1..Len(populates) :
       populates[p].query = "ok" /\ populates[p].word # <<>> /\ populates[p].element.rows # <<>>

\* C19: once the queries of all the populate events have settled,
\* lastSuggestions, resultsToBuildWith and currentlyDisplayedSuggestions are
\* those of the last issued populate event whose query succeeded.
C19_LastIssuedSuccessWins ==
  LET ok == {p \in 1..Len(populates) : populates[p].query = "ok"}
  IN  (ok # {} /\ \A p \in 1..Len(populates) : populates[p].query # "pending") =>
        /\ lastSuggestions = populates[Max(ok)].element.rows
        /\ pluck(resultsToBuildWith) = populates[Max(ok)].element.rows
        /\ currentlyDisplayedSuggestions = DisplayedSuggestions(populates[Max(ok)].element)

\* C20: the response of a top-queries query that arrives after a querySuccess
\* event, for a populate event handled before that event, adds nothing to
\* partialQueries.
C20_OutdatedResponseAddsNothing ==
  [][\A p \in 1..Len(populates) :
       (populates[p].outdated /\ populates[p].query = "pending" /\ populates'[p].query = "ok") =>
         partialQueries' = partialQueries
    ]_vars

(***************************************************************************)
(* Properties of the AnalyticsEndpoint                                     *)
(***************************************************************************)
InFlight == {k \in 1..Len(reqs) : reqs[k].state = "inflight"}

\* C1: the network calls of two non-unload sends are never in flight at the
\* same time.
C1_NonUnloadSerialized ==
  Cardinality({k \in InFlight : ~reqs[k].unload}) <= 1

\* C2: at most one request sent through the endpoint caller (search, custom or
\* the fallback delivery of a document view) is outstanding process-wide.
C2_OneOutstanding == Cardinality(InFlight) <= 1

\* C3: a non-unload send whose own network call failed has rejected the promise
\* returned to its caller with the error of that call, and every send has
\* issued at most one network call (exactly one once its call has settled).
C3_OwnFailureRejects ==
  \A k \in 1..Len(reqs) :
    /\ reqs[k].calls <= 1
    /\ (~reqs[k].unload /\ reqs[k].outcome = "err") =>
          /\ reqs[k].promise = [st |-> "err", of |-> k]
          /\ reqs[k].calls = 1

\* A send that waited twice (behind a request that succeeded) and whose own
\* call failed.
C3_Witness ==
  \E k \in 1..Len(reqs) :
    /\ ~reqs[k].unload
    /\ Len(reqs[k].waitedOn) = 2
    /\ reqs[reqs[k].waitedOn[1]].outcome = "ok"
    /\ reqs[k].outcome = "err"

\* C4: a step that handles a POST response carrying a visitId and a visitorId
\* leaves that visitId as getCurrentVisitId() of the sending instance and that
\* visitorId in the cookie; and the visit ids and the cookie change in no step
\* other than the handling of a response (of a POST, or of the visit GET).
C4_ResponseUpdatesSession ==
  [][/\ \A p \in 1..Len(reqs) :
          (reqs[p].state = "inflight" /\ reqs'[p].outcome = "ok") =>
            \A resp \in Responses :
              ((resp.visitId # 0 /\ resp.visitorId # 0 /\ Settle(p, "ok", resp)) =>
                 (visitId'[reqs[p].inst] = resp.visitId /\ cookie' = resp.visitorId))
      /\ ((visitId' # visitId \/ cookie' # cookie) =>
             (\/ \E k \in 1..Len(reqs) : reqs[k].state = "inflight" /\ reqs'[k].outcome = "ok"
              \/ \E g \in 1..Len(gets) : gets[g].state = "inflight" /\ gets'[g].result.st = "ok"))
    ]_vars

\* A POST response has replaced the identifiers of an earlier one (no visit GET
\* was made, and the cookie did not start at 2).
C4_Witness ==
  /\ gets = <<>>
  /\ cookie = 2
  /\ \E i \in Instances : visitId[i] = 2
  /\ Cardinality({k \in 1..Len(reqs) : reqs[k].outcome = "ok"}) >= 2

\* C5: an unload-causing send is never deferred: it has issued its one network
\* call when it was called and has waited on no promise.
C5_UnloadNeverWaits ==
  \A k \in 1..Len(reqs) :
    reqs[k].unload =>
      /\ reqs[k].state \in {"beacon", "inflight", "settled"}
      /\ reqs[k].waitedOn = <<>>
      /\ reqs[k].calls = 1

\* An unload-causing send was delivered while an earlier non-unload request
\* was in flight.
C5_Witness ==
  \E j, k \in 1..Len(reqs) :
    /\ j < k
    /\ ~reqs[j].unload /\ reqs[j].state = "inflight"
    /\ reqs[k].unload /\ reqs[k].state \in {"beacon", "inflight"}

\* C6: a call of sendSearchEvents with an empty list returns undefined and
\* leaves pendingRequest, the sends, the visit ids and the cookie unchanged.
C6_EmptySearchIsNoOp ==
  [][(lastCall' # lastCall /\ lastCall'.len = 0 /\ gets' = gets) =>
        /\ lastCall'.ret = 0
        /\ UNCHANGED <<pendingRequest, reqs, visitId, cookie>>
    ]_vars

\* sendSearchEvents([]) was the last call, made while a request was pending.
C6_Witness ==
  /\ lastCall = [len |-> 0, ret |-> 0]
  /\ pendingRequest # 0
  /\ InFlight # {}

\* C13: a call of getCurrentVisitIdPromise on an instance with a cached visit
\* id resolves with that id and issues no network call; with none cached it
\* issues one GET and no POST.  When the GET succeeds its id is cached on the
\* instance and is what the promise resolves with; when it fails the promise
\* is rejected and the visit ids are left as they were.
C13_VisitIdPromise ==
  [][/\ Len(gets') # Len(gets) =>
          LET new == Last(gets')
          IN  /\ Len(gets') = Len(gets) + 1
              /\ reqs' = reqs /\ visitId' = visitId
              /\ IF visitId[new.inst] # 0
                   THEN /\ ~new.network
                        /\ new.state = "settled"
                        /\ new.result = [st |-> "ok", id |-> visitId[new.inst]]
                   ELSE /\ new.network
                        /\ new.state = "inflight"
     /\ \A g \in 1..Len(gets) :
          /\ gets'[g].network = gets[g].network
          /\ gets[g].state = "settled" => gets'[g] = gets[g]
          /\ (gets[g].state = "inflight" /\ gets'[g].state = "settled") =>
               IF gets'[g].result.st = "ok"
                 THEN /\ gets'[g].result.id # 0
                      /\ visitId'[gets[g].inst] = gets'[g].result.id
                 ELSE /\ gets'[g].result = [st |-> "err", id |-> 0]
                      /\ visitId' = visitId
    ]_vars

\* The promise resolved without a network call, with an id that a POST response
\* had cached (no visit GET was issued).
C13_Witness ==
  /\ \E h \in 1..Len(gets) : ~gets[h].network /\ gets[h].result.st = "ok"
  /\ \A k \in 1..Len(gets) : ~gets[k].network
  /\ \E k \in 1..Len(reqs) : reqs[k].outcome = "ok"

\* C14: pendingRequest is set exactly when a request sent through the endpoint
\* caller is in flight, and it is then the promise of a request in flight.
C14_HandleSetIffInFlight ==
  /\ pendingRequest # 0 <=> InFlight # {}
  /\ pendingRequest # 0 => pendingRequest \in InFlight

\* C15: a deferred send has issued no call; it issues its call in the step in
\* which the request it waited for last settles, and the visitor of the
\* request it issues is the visitorId cookie as that step leaves it, the
\* response handled.
C15_DeferredReadsCookieAfterResponse ==
  [][\A k \in 1..Len(reqs) :
       /\ reqs[k].state = "deferred" => reqs[k].calls = 0
       /\ (reqs[k].state = "deferred" /\ reqs'[k].state = "inflight") =>
            /\ reqs[Last(reqs[k].waitedOn)].state = "inflight"
            /\ reqs'[Last(reqs[k].waitedOn)].state = "settled"
            /\ reqs'[k].visitor = cookie'
    ]_vars

\* A deferred send is in flight with the visitor 2, which only a response can
\* have written to the cookie.
C15_Witness ==
  \E k \in 1..Len(reqs) :
    /\ reqs[k].state = "inflight"
    /\ reqs[k].waitedOn # <<>>
    /\ reqs[k].visitor = 2

\* C16: the promise returned for a deferred non-unload send whose own call
\* succeeded is fulfilled with the response of that call, whatever the outcome
\* of the requests it waited for.
C16_DeferredFulfilsWithOwnResponse ==
  \A k \in 1..Len(reqs) :
    (~reqs[k].unload /\ reqs[k].waitedOn # <<>> /\ reqs[k].outcome = "ok") =>
      reqs[k].promise = [st |-> "ok", of |-> k]

\* C17: when every request in flight settles, from some point on every
\* non-unload send made (the sends are finitely many) has issued its network
\* call, exactly one, which has settled, and pendingRequest is null.
C17_EverySendIsIssued ==
  <>[](/\ pendingRequest = 0
       /\ \A k \in 1..Len(reqs) :
            ~reqs[k].unload => (reqs[k].calls = 1 /\ reqs[k].state = "settled"))

\* Three sends of two instances waited on the same request, and all have
\* settled.
C17_Witness ==
  /\ Len(reqs) >= 3
  /\ \E k \in 1..Len(reqs) : Len(reqs[k].waitedOn) = 2
  /\ \E j, k \in 1..Len(reqs) : reqs[j].waitedOn # <<>> /\ reqs[k].waitedOn # <<>> /\ j # k
  /\ \A k \in 1..Len(reqs) : reqs[k].state = "settled"
  /\ pendingRequest = 0

(***************************************************************************)
(* Properties of cleanCustomData                                           *)
(***************************************************************************)
\* C10: with the default budget cleanCustomData returns a string strictly under
\* 256 characters long, and its recursion is finite: every retry lowers the
\* budget by 10 and the budget never goes below 0 (at most 25 retries).
C10_ReturnsUnderLimit ==
  /\ cleanPc = "done" => Len(cleanRet) < 256
  /\ rejectLength >= 0
  /\ (DefaultRejectLength - rejectLength) % RejectStep = 0

\* A call that needed at least two retries has returned a non-empty string.
C10_Witness ==
  /\ cleanPc = "done"
  /\ rejectLength <= DefaultRejectLength - 2 * RejectStep
  /\ Len(cleanRet) > 0

\* C11: the entries of the returned string are the longest trailing run of the
\* cleaned input entries (consecutive duplicates removed, ';' stripped) whose
\* joined length does not exceed the budget of 256: they are a trailing run,
\* and no longer trailing run fits.
C11_KeepsLongestTrailingRun ==
  cleanPc = "done" =>
    LET cleaned == MapStrip(FilterConsecutive(cleanInput, 1))
        run(n) == SubSeq(cleaned, Len(cleaned) - n + 1, Len(cleaned))
    IN  /\ Len(toClean) <= Len(cleaned)
        /\ toClean = run(Len(toClean))
        /\ \A n \in (Len(toClean) + 1)..Len(cleaned) :
             Len(Join(run(n))) > DefaultRejectLength

\* C12: no two adjacent entries of the returned string are equal.
C12_NoAdjacentEqualEntries ==
  cleanPc = "done" =>
    \A i \in 1..(Len(toClean) - 1) : toClean[i] # toClean[i + 1]
====
